---- MODULE Spec2Model ----
(***************************************************************************)
(* gnssmonitor.py: the receiver configuration transaction (poll, save,     *)
(* set, restore), the acknowledgment wait, and the monitor loop, as one    *)
(* sequential state machine driven by the messages the transport delivers. *)
(***************************************************************************)
EXTENDS Integers, Sequences, FiniteSets, TLC

\* ---------------------------------------------------------------- bounds
\* receivertimeout session parameter (seconds the wait may last)
ReceiverTimeout == 2
\* serialtimeout session parameter: the longest one transport read may take
StreamTimeout == 1
\* configuration values the receiver holds initially are 0..MaxVal
MaxVal == 1
\* the most blocks one MON-RF message of the monitor loop carries
MaxBlocks == 2

\* ------------------------------------------------------- protocol numbers
CLS_ACK == 5
ID_ACK_ACK == 1
ID_ACK_NAK == 0
CLS_CFG == 6
ID_CFG_VALSET == 138
ID_CFG_VALGET == 139
CLS_MON == 10
ID_MON_VER == 4
ID_MON_RF == 56
CLS_NAV == 1
ID_NAV_PVT == 7
ID_NAV_STATUS == 3
CLS_RXM == 2
ID_RXM_RAWX == 21
ID_RXM_SFRBX == 19

\* ------------------------------------------------------------ __init__
\* Python's None where a list of (item, value) pairs is expected
None == << <<"None", 0>> >>

cfg_data_base ==
    << <<"CFG_MSGOUT_UBX_NAV_PVT_UART1", 1>>,
       <<"CFG_MSGOUT_UBX_NAV_STATUS_UART1", 1>>,
       <<"CFG_MSGOUT_UBX_MON_RF_UART1", 1>>,
       <<"CFG_ITFM_ENABLE", 1>> >>

cfg_data_raw ==
    << <<"CFG_MSGOUT_UBX_RXM_RAWX_UART1", 1>>,
       <<"CFG_MSGOUT_UBX_RXM_SFRBX_UART1", 1>> >>

\* self._cfg_data as __init__ leaves it, given whether --rawpath was passed
cfg_data_of(rp) == IF rp THEN cfg_data_base \o cfg_data_raw ELSE cfg_data_base

\* cfg_items = [cfg_item for (cfg_item, value) in self._cfg_data]
cfg_items_of(data) == [i \in 1..Len(data) |-> data[i][1]]

ItemNames(rp) == {cfg_data_of(rp)[i][1] : i \in 1..Len(cfg_data_of(rp))}

\* the receiver configurations a session may find: item i holds
\* (a + b * i) % (MaxVal + 1), for every a and b in 0..MaxVal
RxInitCfgs(rp) ==
    {[n \in ItemNames(rp) |->
        LET i == CHOOSE j \in 1..Len(cfg_data_of(rp)) : cfg_data_of(rp)[j][1] = n
        IN (a + b * i) % (MaxVal + 1)] : a \in 0..MaxVal, b \in 0..MaxVal}

\* ------------------------------------------------------------ messages
Ack(id, c, m) == [msg_cls |-> CLS_ACK, msg_id |-> id, clsID |-> c, msgID |-> m]
AckMsgs == {Ack(id, c, m) : id \in {ID_ACK_ACK, ID_ACK_NAK},
                            c \in {CLS_CFG, CLS_MON},
                            m \in {ID_CFG_VALSET, ID_CFG_VALGET}}
\* the CFG-VALGET response: one attribute per polled item
Valget(cfg) == [msg_cls |-> CLS_CFG, msg_id |-> ID_CFG_VALGET, vals |-> cfg]
MonVer == [msg_cls |-> CLS_MON, msg_id |-> ID_MON_VER]

\* str(n) of an integer
str(n) == ToString(n)

RECURSIVE Zeros(_)
Zeros(k) == IF k <= 0 THEN "" ELSE "0" \o Zeros(k - 1)

\* s.zfill(width): zeros on the left up to width, after a leading sign
zfill(s, width) ==
    IF Len(s) >= width THEN s
    ELSE IF Len(s) > 0 /\ SubSeq(s, 1, 1) = "-"
    THEN "-" \o Zeros(width - Len(s)) \o SubSeq(s, 2, Len(s))
    ELSE Zeros(width - Len(s)) \o s

\* the name the parser gives field f of the i-th repeated block: f_01, f_02..
Indexed(f, i) == f \o "_" \o (IF i < 10 THEN "0" ELSE "") \o ToString(i)

\* the attributes a parsed message has for a repeated group: one per field
\* and block, numbered from 1
GroupAttrs(group) ==
    LET fields == UNION {DOMAIN group[i] : i \in 1..Len(group)}
        slots == fields \X (1..Len(group))
    IN [a \in {Indexed(q[1], q[2]) : q \in slots} |->
           LET p == CHOOSE q \in slots : a = Indexed(q[1], q[2])
           IN group[p[2]][p[1]]]

\* Python's None where an attribute value (a non-negative number) is expected
NoneAttr == 0 - 1

\* NAV-PVT: the flags and the date and time fields the handler reads
Days == {4, 15}
Nanos == {0 - 5}
NavPvtOf(cd, ct, d, n, fix) ==
    [msg_cls |-> CLS_NAV, msg_id |-> ID_NAV_PVT,
     confirmedDate |-> cd, confirmedTime |-> ct,
     year |-> 2026, month |-> 11, day |-> d,
     hour |-> 9, min |-> 5, second |-> 7, nano |-> n, gnssFixOk |-> fix]
NavPvtMsgs == {NavPvtOf(cd, ct, d, n, fix) :
                 cd \in 0..1, ct \in 0..1, d \in Days, n \in Nanos,
                 fix \in 0..1}
NavPvt == NavPvtOf(1, 1, 4, 0 - 5, 0)

\* NAV-STATUS: spoofDetState is a two-bit field
NavStatusOf(s) == [msg_cls |-> CLS_NAV, msg_id |-> ID_NAV_STATUS,
                   spoofDetState |-> s]
NavStatusMsgs == {NavStatusOf(s) : s \in 0..3}
NavStatus == NavStatusOf(2)

\* RXM-RAWX: numMeas measurements
RxmRawxOf(meas) == [msg_cls |-> CLS_RXM, msg_id |-> ID_RXM_RAWX,
                    numMeas |-> Len(meas), attrs |-> GroupAttrs(meas)]
RxmRawx == RxmRawxOf(<<[prMes |-> 7]>>)

\* RXM-SFRBX: numWords data words
RxmSfrbxOf(words) == [msg_cls |-> CLS_RXM, msg_id |-> ID_RXM_SFRBX,
                      numWords |-> Len(words), attrs |-> GroupAttrs(words)]
RxmSfrbx == RxmSfrbxOf(<<[dwrd |-> 3]>>)

Block == [blockId : {0, 2}, jammingState : {1, 3}]
\* the transport delivers MON-RF messages of one block
BlockSeqs == {<<b>> : b \in Block}
MonRf(blocks) == [msg_cls |-> CLS_MON, msg_id |-> ID_MON_RF,
                  nBlocks |-> Len(blocks), attrs |-> GroupAttrs(blocks)]
MonRfMsgs == {MonRf(b) : b \in BlockSeqs}

\* what one call of UBXReader.read() can come back with
DecodeError == [fail |-> "decode_error"]
Nothing == [fail |-> "nothing"]
Unread == [fail |-> "unread"]
\* the blocking read was cut short by SIGINT
Interrupted == [fail |-> "KeyboardInterrupt"]
Incoming(cfg) ==
    AckMsgs \cup MonRfMsgs
    \cup {Valget(cfg), MonVer, NavPvt, NavStatus, RxmRawx, DecodeError, Nothing}

\* MON-RF as the receiver sends it: one block per RF band, in band order,
\* a band the program has no name for among them
RfBlock == [blockId : 0..2, jammingState : 0..3]
RECURSIVE RfBlockSeqs(_)
RfBlockSeqs(n) ==
    IF n = 0 THEN {<<>>}
    ELSE RfBlockSeqs(n - 1)
         \cup {Append(s, b) : s \in {t \in RfBlockSeqs(n - 1) : Len(t) = n - 1},
                              b \in RfBlock}
RfMsgs == {MonRf(b) : b \in {s \in RfBlockSeqs(MaxBlocks) :
                                \A i \in 1..(Len(s) - 1) :
                                    s[i].blockId < s[i + 1].blockId}}
\* RXM-RAWX of no, one, two and eleven measurements
RawxMsgs == {RxmRawxOf(<<>>), RxmRawx,
             RxmRawxOf(<<[prMes |-> 7], [prMes |-> 8]>>),
             RxmRawxOf([i \in 1..11 |-> [prMes |-> i]])}

\* what the transport delivers to the monitor loop
Telemetry(cfg) ==
    NavPvtMsgs \cup NavStatusMsgs \cup RfMsgs \cup RawxMsgs
    \cup {RxmSfrbx, MonVer, Valget(cfg), Ack(ID_ACK_ACK, CLS_CFG, ID_CFG_VALSET),
          DecodeError}

\* Python's None where a message is expected
NoneMsg == [py |-> "None"]

\* _readmsg: the parsed message, or None when the read raised a UBX error
\* (printed) or came back with nothing
readmsg(r) == IF "msg_cls" \in DOMAIN r THEN r ELSE NoneMsg

IsNone(msg) == msg = NoneMsg

VARIABLES
    pc,             \* where the program is
    rawpath,        \* --rawpath given
    verbose,        \* --verbose given
    raw,            \* what the last transport read came back with
    count,          \* _receiver_setup's count
    elapsed,        \* time.time() - start_time of the running wait
    cfg_data_save,  \* self._cfg_data_save
    written,        \* commands written to the transport, in order
    rxcfg,          \* the receiver's RAM configuration
    rxcfg0,         \* the receiver's RAM configuration before the session
    rxpending,      \* the VALSET the receiver has not answered yet
    poll_acked,     \* a matching ACK-ACK for the poll was read
    set_acked,      \* a matching ACK-ACK for the startup VALSET was read
    skipped,        \* the running wait read an ACK-* for another request
    exc_type,       \* what __exit__ was called with
    raised,         \* exception that left __enter__ or __exit__
    report,         \* what __exit__ printed about the restore
    last_UTC,       \* self._last_UTC_date, _date_valid, _tod, _nano, _tod_valid
    console,        \* lines the handler called in the last step printed
    appended,       \* rows the handler called in the last step appended, by sink
    late            \* the read of the last step came back after the deadline
                    \* of the wait it belongs to

vars == <<pc, rawpath, verbose, raw, count, elapsed, cfg_data_save, written,
          rxcfg, rxcfg0, rxpending, poll_acked, set_acked, skipped, exc_type,
          raised, report, last_UTC, console, appended,
          late>>

cfg_data == cfg_data_of(rawpath)

\* Python's None where a string is expected
NoneStr == "<None>"

\* the dump files of _logfiles_setup
Sinks == {"NAV_PVT", "MON_RF", "RXM_RAWX", "RXM_SFRBX"}
NoRows == [s \in Sinks |-> <<>>]

Init ==
    /\ pc = "init"
    /\ rawpath \in BOOLEAN
    /\ verbose \in BOOLEAN
    /\ raw = Unread
    /\ count = 0
    /\ elapsed = 0
    /\ cfg_data_save = None
    /\ written = <<>>
    /\ rxcfg \in RxInitCfgs(rawpath)
    /\ rxcfg0 = rxcfg
    /\ rxpending = None
    /\ poll_acked = FALSE
    /\ set_acked = FALSE
    /\ skipped = FALSE
    /\ exc_type = "unset"
    /\ raised = "none"
    /\ report = "none"
    /\ last_UTC = [date |-> NoneStr, date_valid |-> FALSE, tod |-> NoneStr,
                   nano |-> NoneStr, tod_valid |-> FALSE]
    /\ console = <<>>
    /\ appended = NoRows
    /\ late = FALSE


\* ---------------------------------------------------- commands written
\* UBXMessage(0x0a, 0x04, POLL)
VersionPoll == [cmd |-> "MON-VER", cfgData |-> <<>>]
\* UBXMessage.config_poll(0, 0, cfg_items)
config_poll(keys) == [cmd |-> "CFG-VALGET", cfgData |-> keys]
\* UBXMessage.config_set(1, 0, cfg_data)
config_set(data) == [cmd |-> "CFG-VALSET", cfgData |-> data]
\* config_set takes len() of its list: None raises TypeError before any write
config_set_raises(data) == data = None

\* ------------------------------------------------------------ receiver
\* the receiver's RAM after it accepted a VALSET carrying data
RxApply(cfg, data) ==
    [n \in DOMAIN cfg |->
        IF \E i \in 1..Len(data) : data[i][1] = n
        THEN data[CHOOSE i \in 1..Len(data) : data[i][1] = n][2]
        ELSE cfg[n]]

\* an ACK-ACK for CFG-VALSET is the receiver saying it applied the pending
\* VALSET; an ACK-NAK says it rejected it
RxCfgAfter(r) ==
    IF r = Ack(ID_ACK_ACK, CLS_CFG, ID_CFG_VALSET) /\ rxpending # None
    THEN RxApply(rxcfg, rxpending)
    ELSE rxcfg

RxPendingAfter(r) ==
    IF r \in {Ack(ID_ACK_ACK, CLS_CFG, ID_CFG_VALSET),
              Ack(ID_ACK_NAK, CLS_CFG, ID_CFG_VALSET)}
    THEN None
    ELSE rxpending

\* ------------------------------------------------------ helper functions
\* faulty variants of _ACK_helper: any ACK-ACK counts, whatever request it answers
ACK_helper_AnyAck(msg, clsID, msgID) ==
    IF msg.msg_cls = CLS_ACK
    THEN IF msg.msg_id = ID_ACK_ACK THEN "True"
         ELSE IF msg.clsID = clsID /\ msg.msgID = msgID THEN "raise" ELSE "False"
    ELSE "False"

\* the request is matched on its class alone
ACK_helper_ClsOnly(msg, clsID, msgID) ==
    IF msg.msg_cls = CLS_ACK
    THEN IF msg.clsID = clsID
         THEN IF msg.msg_id = ID_ACK_ACK THEN "True" ELSE "raise"
         ELSE "False"
    ELSE "False"

\* an ACK-NAK for the request is skipped like any other message
ACK_helper_NakSkipped(msg, clsID, msgID) ==
    IF msg.msg_cls = CLS_ACK
    THEN IF msg.clsID = clsID /\ msg.msgID = msgID /\ msg.msg_id = ID_ACK_ACK
         THEN "True"
         ELSE "False"
    ELSE "False"

\* _ACK_helper: "True" (ACK-ACK for the request), "False" (anything else),
\* "raise" (ACK-NAK for the request: ACKError)
ACK_helper(msg, clsID, msgID) ==
    IF msg.msg_cls = CLS_ACK
    THEN IF msg.clsID = clsID /\ msg.msgID = msgID
         THEN IF msg.msg_id = ID_ACK_ACK THEN "True" ELSE "raise"
         ELSE "False"
    ELSE "False"

\* r is an ACK-ACK or ACK-NAK that answers another request than (clsID, msgID)
OtherAck(r, clsID, msgID) ==
    r \in AckMsgs /\ ~(r.clsID = clsID /\ r.msgID = msgID)

\* time.time() - start_time > self._receiver_timeout
TimedOut(e) == e > ReceiverTimeout

\* faulty variant of the snapshot: the target value is saved, not the polled one
SaveCfg_Target(msg, data) ==
    [i \in 1..Len(data) |-> <<data[i][1], data[i][2]>>]

\* [(cfg_item, getattr(msg, cfg_item)) for (cfg_item, value) in self._cfg_data]
SaveCfg(msg, data) ==
    [i \in 1..Len(data) |-> <<data[i][1], msg.vals[data[i][1]]>>]

\* faulty variant: a values response read after the poll's ACK-ACK is not taken
IsValget_BeforeAckOnly(msg) ==
    msg.msg_cls = CLS_CFG /\ msg.msg_id = ID_CFG_VALGET /\ ~poll_acked

IsValget(msg) == msg.msg_cls = CLS_CFG /\ msg.msg_id = ID_CFG_VALGET

\* ---------------------------------------------------------- dispatching
\* faulty variant of the dispatch: the raw-data handlers are registered without
\* --rawpath too
get_handler_RawAlways(msg) ==
    IF msg.msg_cls = CLS_NAV /\ msg.msg_id = ID_NAV_PVT THEN "_NAV_PVT_handler"
    ELSE IF msg.msg_cls = CLS_NAV /\ msg.msg_id = ID_NAV_STATUS
         THEN "_NAV_STATUS_handler"
    ELSE IF msg.msg_cls = CLS_MON /\ msg.msg_id = ID_MON_RF THEN "_MON_RF_handler"
    ELSE IF msg.msg_cls = CLS_RXM /\ msg.msg_id = ID_RXM_RAWX
         THEN "_RXM_RAWX_handler"
    ELSE IF msg.msg_cls = CLS_RXM /\ msg.msg_id = ID_RXM_SFRBX
         THEN "_RXM_SFRBX_handler"
    ELSE "_other_handler"

\* self._ubxmsg_to_handler.get(key, self._other_handler)
get_handler(msg) ==
    IF msg.msg_cls = CLS_NAV /\ msg.msg_id = ID_NAV_PVT THEN "_NAV_PVT_handler"
    ELSE IF msg.msg_cls = CLS_NAV /\ msg.msg_id = ID_NAV_STATUS
         THEN "_NAV_STATUS_handler"
    ELSE IF msg.msg_cls = CLS_MON /\ msg.msg_id = ID_MON_RF THEN "_MON_RF_handler"
    ELSE IF rawpath /\ msg.msg_cls = CLS_RXM /\ msg.msg_id = ID_RXM_RAWX
         THEN "_RXM_RAWX_handler"
    ELSE IF rawpath /\ msg.msg_cls = CLS_RXM /\ msg.msg_id = ID_RXM_SFRBX
         THEN "_RXM_SFRBX_handler"
    ELSE "_other_handler"

\* faulty variant of _getattr_helper: the index is not padded to two digits
getattr_helper_NoPad(msg, attr_name, index) ==
    LET name == attr_name \o str(index)
    IN IF "attrs" \in DOMAIN msg /\ name \in DOMAIN msg.attrs
       THEN msg.attrs[name]
       ELSE NoneAttr

\* _getattr_helper: getattr(msg, attr_name + str(index).zfill(2), None)
getattr_helper(msg, attr_name, index) ==
    LET name == attr_name \o zfill(str(index), 2)
    IN IF "attrs" \in DOMAIN msg /\ name \in DOMAIN msg.attrs
       THEN msg.attrs[name]
       ELSE NoneAttr

\* faulty variant of _get_last_UTC: the stored date is shown whether or not
\* it is valid
get_last_UTC_StaleDate(u) ==
    u.date
    \o " "
    \o (IF u.tod_valid THEN u.tod \o " n=" \o u.nano ELSE "no_valid_time")

\* _get_last_UTC on the UTC attributes u
get_last_UTC(u) ==
    (IF u.date_valid THEN u.date ELSE "no_valid_date")
    \o " "
    \o (IF u.tod_valid THEN u.tod \o " n=" \o u.nano ELSE "no_valid_time")

\* what a handler call comes to: the UTC attributes after it, the lines it
\* printed, the rows it appended, and the exception that ended it
Outcome(u, lines, rows, exc) ==
    [last_UTC |-> u, console |-> lines, appended |-> rows, raises |-> exc]

\* faulty variant: a confirmed time sets the flag and the time of day but
\* not the nanoseconds
NAV_PVT_update_NoNano(msg) ==
    LET u1 == IF msg.confirmedDate = 1
              THEN [last_UTC EXCEPT
                      !.date_valid = TRUE,
                      !.date = zfill(str(msg.year), 4) \o "-"
                               \o zfill(str(msg.month), 2) \o "-"
                               \o zfill(str(msg.day), 2)]
              ELSE [last_UTC EXCEPT !.date_valid = FALSE]
    IN IF msg.confirmedTime = 1
       THEN [u1 EXCEPT
               !.tod_valid = TRUE,
               !.tod = zfill(str(msg.hour), 2) \o ":"
                       \o zfill(str(msg.min), 2) \o ":"
                       \o zfill(str(msg.second), 2)]
       ELSE [u1 EXCEPT !.tod_valid = FALSE]

\* the UTC attributes after the "update last UTC" part of _NAV_PVT_handler
NAV_PVT_update(msg) ==
    LET u1 == IF msg.confirmedDate = 1
              THEN [last_UTC EXCEPT
                      !.date_valid = TRUE,
                      !.date = zfill(str(msg.year), 4) \o "-"
                               \o zfill(str(msg.month), 2) \o "-"
                               \o zfill(str(msg.day), 2)]
              ELSE [last_UTC EXCEPT !.date_valid = FALSE]
    IN IF msg.confirmedTime = 1
       THEN [u1 EXCEPT
               !.tod_valid = TRUE,
               !.tod = zfill(str(msg.hour), 2) \o ":"
                       \o zfill(str(msg.min), 2) \o ":"
                       \o zfill(str(msg.second), 2),
               !.nano = str(msg.nano)]
       ELSE [u1 EXCEPT !.tod_valid = FALSE]

\* the row _NAV_PVT_handler appends (cut to the fields the message carries
\* here), u being the UTC attributes
NAV_PVT_row(msg, u) ==
    <<get_last_UTC(u), msg.year, msg.month, msg.day, msg.hour, msg.min,
      msg.second, msg.nano, msg.gnssFixOk>>

\* faulty variant: the fix status is printed before the UTC attributes are
\* updated
NAV_PVT_handler_PrintsFirst(msg) ==
    Outcome(NAV_PVT_update(msg),
            IF msg.gnssFixOk = 0
            THEN <<get_last_UTC(last_UTC) \o ": No valid fix">>
            ELSE IF msg.gnssFixOk = 1 /\ verbose
            THEN <<get_last_UTC(last_UTC) \o ": Valid fix">>
            ELSE <<>>,
            IF rawpath
            THEN [NoRows EXCEPT
                    !["NAV_PVT"] = <<NAV_PVT_row(msg, NAV_PVT_update(msg))>>]
            ELSE NoRows,
            "none")

\* faulty variant: the row is appended without --rawpath too
NAV_PVT_handler_AlwaysRow(msg) ==
    LET u == NAV_PVT_update(msg)
    IN Outcome(u,
               IF msg.gnssFixOk = 0
               THEN <<get_last_UTC(u) \o ": No valid fix">>
               ELSE IF msg.gnssFixOk = 1 /\ verbose
               THEN <<get_last_UTC(u) \o ": Valid fix">>
               ELSE <<>>,
               [NoRows EXCEPT !["NAV_PVT"] = <<NAV_PVT_row(msg, u)>>],
               "none")

\* _NAV_PVT_handler
NAV_PVT_handler(msg) ==
    LET u == NAV_PVT_update(msg)
    IN Outcome(u,
               IF msg.gnssFixOk = 0
               THEN <<get_last_UTC(u) \o ": No valid fix">>
               ELSE IF msg.gnssFixOk = 1 /\ verbose
               THEN <<get_last_UTC(u) \o ": Valid fix">>
               ELSE <<>>,
               IF rawpath
               THEN [NoRows EXCEPT !["NAV_PVT"] = <<NAV_PVT_row(msg, u)>>]
               ELSE NoRows,
               "none")

\* faulty variant: the handler marks the stored time invalid
NAV_STATUS_handler_ResetsTime(msg) ==
    Outcome([last_UTC EXCEPT !.tod_valid = FALSE],
            IF msg.spoofDetState \in {0, 2, 3} \/ verbose
            THEN <<get_last_UTC(last_UTC) \o ": spoofing state">>
            ELSE <<>>,
            NoRows, "none")

\* _NAV_STATUS_handler
NAV_STATUS_handler(msg) ==
    LET s == msg.spoofDetState
        text == IF s = 0 THEN ": Unknown spoofing detection state"
                ELSE IF s = 1 THEN ": No spoofing indicated"
                ELSE IF s = 2 THEN ": Spoofing indicated"
                ELSE ": Multiple spoofing indications"
        prints == s \in {0, 2, 3} \/ (s = 1 /\ verbose)
    IN Outcome(last_UTC,
               IF prints THEN <<get_last_UTC(last_UTC) \o text>> ELSE <<>>,
               NoRows, "none")

\* bands = {0: "L1", 1: "L2 or L5"}
bands == (0 :> "L1") @@ (1 :> "L2 or L5")

\* faulty variant: the nominal jamming state prints without --verbose too
PrintsBand_Ungated(msg, i) ==
    getattr_helper(msg, "jammingState_", i) \in {0, 1, 2, 3}

\* block i of a MON-RF message makes the handler evaluate bands[blockId]
PrintsBand(msg, i) ==
    LET jammingState == getattr_helper(msg, "jammingState_", i)
    IN \/ jammingState \in {0, 2, 3}
       \/ jammingState = 1 /\ verbose

\* the line _MON_RF_handler prints for a jamming state on a band
JammingLine(jammingState, band) ==
    IF jammingState = 0
    THEN ": jamming state unknown on " \o band \o " band"
    ELSE IF jammingState = 1
    THEN ": ok - no significant jamming on " \o band \o " band"
    ELSE IF jammingState = 2
    THEN ": warning - interference visible on " \o band \o " band but fix OK"
    ELSE ": critical - interference visible on " \o band \o " band and no fix"

\* the loop of _MON_RF_handler from block i on, lines and data being what the
\* blocks before i printed and collected; bands[blockId] of an unknown band
\* raises KeyError before data is written
RECURSIVE MON_RF_blocks(_, _, _, _)
MON_RF_blocks(msg, i, lines, data) ==
    IF i > msg.nBlocks
    THEN Outcome(last_UTC, lines,
                 IF rawpath THEN [NoRows EXCEPT !["MON_RF"] = data]
                 ELSE NoRows,
                 "none")
    ELSE LET blockId == getattr_helper(msg, "blockId_", i)
             jammingState == getattr_helper(msg, "jammingState_", i)
             row == <<get_last_UTC(last_UTC), blockId, jammingState>>
         IN IF PrintsBand(msg, i) /\ blockId \notin DOMAIN bands
            THEN Outcome(last_UTC, lines, NoRows, "KeyError")
            ELSE MON_RF_blocks(
                   msg, i + 1,
                   IF PrintsBand(msg, i)
                   THEN Append(lines, get_last_UTC(last_UTC)
                                      \o JammingLine(jammingState,
                                                     bands[blockId]))
                   ELSE lines,
                   IF rawpath THEN Append(data, row) ELSE data)

\* faulty variant: only the first block of the message is evaluated
MON_RF_handler_FirstBlockOnly(msg) ==
    MON_RF_blocks([msg EXCEPT !.nBlocks = IF @ > 1 THEN 1 ELSE @], 1, <<>>, <<>>)

\* _MON_RF_handler
MON_RF_handler(msg) == MON_RF_blocks(msg, 1, <<>>, <<>>)

\* _RXM_RAWX_handler: one row per measurement
RXM_RAWX_handler(msg) ==
    Outcome(last_UTC, <<>>,
            [NoRows EXCEPT !["RXM_RAWX"] =
                [i \in 1..msg.numMeas |->
                    <<get_last_UTC(last_UTC),
                      getattr_helper(msg, "prMes_", i)>>]],
            "none")

\* _RXM_SFRBX_handler: one row, the data words at its end
RXM_SFRBX_handler(msg) ==
    Outcome(last_UTC, <<>>,
            [NoRows EXCEPT !["RXM_SFRBX"] =
                << <<get_last_UTC(last_UTC)>>
                   \o [i \in 1..msg.numWords |->
                         getattr_helper(msg, "dwrd_", i)] >>],
            "none")

\* _other_handler
other_handler(msg) == Outcome(last_UTC, <<>>, NoRows, "none")

\* handler(msg) for the handler _get_handler returned
call(h, msg) ==
    IF h = "_NAV_PVT_handler" THEN NAV_PVT_handler(msg)
    ELSE IF h = "_NAV_STATUS_handler" THEN NAV_STATUS_handler(msg)
    ELSE IF h = "_MON_RF_handler" THEN MON_RF_handler(msg)
    ELSE IF h = "_RXM_RAWX_handler" THEN RXM_RAWX_handler(msg)
    ELSE IF h = "_RXM_SFRBX_handler" THEN RXM_SFRBX_handler(msg)
    ELSE other_handler(msg)

\* the handler call ends with an exception
HandlerRaises(h, msg) == call(h, msg).raises # "none"

\* faulty variant: a message read by a wait is handed to its handler
NoDispatch_WaitsDispatch ==
    IF pc \in {"version_check", "poll", "set", "restore"}
       /\ "msg_cls" \in DOMAIN raw'
    THEN \E res \in {call(get_handler(raw'), raw')} :
            /\ last_UTC' = res.last_UTC
            /\ console' = res.console
            /\ appended' = res.appended
    ELSE /\ console' = <<>>
         /\ appended' = NoRows
         /\ UNCHANGED last_UTC

\* a step in which no handler is called
NoDispatch ==
    /\ console' = <<>>
    /\ appended' = NoRows
    /\ UNCHANGED last_UTC

\* issubclass(exc_type, Exception); exc_type None is not a class: TypeError
issubclass_Exception(t) ==
    IF t = "None" THEN "TypeError"
    ELSE IF t = "KeyboardInterrupt" THEN "False" ELSE "True"


\* ---------------------------------------------------------- __enter__
\* __enter__ up to the first read of _firmware_hardware_version_check
Enter ==
    /\ pc = "init"
    /\ late' = FALSE
    /\ pc' = "version_check"
    /\ written' = Append(written, VersionPoll)
    /\ elapsed' = 0
    /\ NoDispatch
    /\ UNCHANGED <<rawpath, verbose, raw, count, cfg_data_save, rxcfg, rxcfg0,
                   rxpending, poll_acked, set_acked, skipped, exc_type, raised,
                   report>>

\* one turn of the loop of _firmware_hardware_version_check; when it breaks,
\* __enter__ goes on into _receiver_setup, which writes the poll
VersionRead(r, d) ==
    LET msg == readmsg(r)
        e == elapsed + d
    IN
    /\ pc = "version_check"
    /\ late' = TimedOut(e)
    /\ raw' = r
    /\ rxcfg' = RxCfgAfter(r)
    /\ rxpending' = RxPendingAfter(r)
    /\ IF IsNone(msg)
       THEN /\ pc' = "aborted"
            /\ raised' = "AttributeError"
            /\ elapsed' = e
            /\ UNCHANGED <<written, count>>
       ELSE IF (msg.msg_cls = CLS_MON /\ msg.msg_id = ID_MON_VER) \/ TimedOut(e)
       THEN /\ pc' = "poll"
            /\ written' = Append(written, config_poll(cfg_items_of(cfg_data)))
            /\ elapsed' = 0
            /\ count' = 0
            /\ UNCHANGED raised
       ELSE /\ elapsed' = e
            /\ UNCHANGED <<pc, written, count, raised>>
    /\ NoDispatch
    /\ UNCHANGED <<rawpath, verbose, cfg_data_save, rxcfg0, poll_acked,
                   set_acked, skipped, exc_type, report>>

\* faulty variant of the poll wait: the deadline is tested only while a
\* message is still missing
PollRead_DeadlineWhileWaiting(r, d) ==
    LET msg == readmsg(r)
        e == elapsed + d
        isval == ~IsNone(msg) /\ IsValget(msg)
        ack == IF IsNone(msg) THEN "False"
               ELSE ACK_helper(msg, CLS_CFG, ID_CFG_VALGET)
        c == count + (IF isval THEN 1 ELSE 0) + (IF ack = "True" THEN 1 ELSE 0)
    IN
    /\ pc = "poll"
    /\ late' = TimedOut(e)
    /\ raw' = r
    /\ rxcfg' = RxCfgAfter(r)
    /\ cfg_data_save' = IF isval THEN SaveCfg(msg, cfg_data) ELSE cfg_data_save
    /\ poll_acked' = (poll_acked \/ r = Ack(ID_ACK_ACK, CLS_CFG, ID_CFG_VALGET))
    /\ skipped' = IF c >= 2 /\ ack # "raise" /\ ~TimedOut(e) THEN FALSE
                  ELSE (skipped \/ OtherAck(r, CLS_CFG, ID_CFG_VALGET))
    /\ IF IsNone(msg)
       THEN /\ pc' = "aborted"
            /\ raised' = "AttributeError"
            /\ elapsed' = e
            /\ rxpending' = RxPendingAfter(r)
            /\ UNCHANGED <<written, count>>
       ELSE IF ack = "raise"
       THEN /\ pc' = "aborted"
            /\ raised' = "ACKError_NAK"
            /\ elapsed' = e
            /\ count' = count + (IF isval THEN 1 ELSE 0)
            /\ rxpending' = RxPendingAfter(r)
            /\ UNCHANGED written
       ELSE IF TimedOut(e) /\ c < 2
       THEN /\ pc' = "aborted"
            /\ raised' = "ACKError_timeout"
            /\ elapsed' = e
            /\ count' = c
            /\ rxpending' = RxPendingAfter(r)
            /\ UNCHANGED written
       ELSE IF c < 2
       THEN /\ elapsed' = e
            /\ count' = c
            /\ rxpending' = RxPendingAfter(r)
            /\ UNCHANGED <<pc, written, raised>>
       ELSE /\ pc' = "set"
            /\ count' = c
            /\ written' = Append(written, config_set(cfg_data))
            /\ rxpending' = cfg_data
            /\ elapsed' = 0
            /\ UNCHANGED raised
    /\ NoDispatch
    /\ UNCHANGED <<rawpath, verbose, rxcfg0, set_acked, exc_type, report>>

\* one turn of the poll loop of _receiver_setup; when count reaches 2 the
\* loop ends and _cfg_receiver_RAM(self._cfg_data) writes the VALSET
PollRead(r, d) ==
    LET msg == readmsg(r)
        e == elapsed + d
        isval == ~IsNone(msg) /\ IsValget(msg)
        ack == IF IsNone(msg) THEN "False"
               ELSE ACK_helper(msg, CLS_CFG, ID_CFG_VALGET)
        c == count + (IF isval THEN 1 ELSE 0) + (IF ack = "True" THEN 1 ELSE 0)
    IN
    /\ pc = "poll"
    /\ late' = TimedOut(e)
    /\ raw' = r
    /\ rxcfg' = RxCfgAfter(r)
    /\ cfg_data_save' = IF isval THEN SaveCfg(msg, cfg_data) ELSE cfg_data_save
    /\ poll_acked' = (poll_acked \/ r = Ack(ID_ACK_ACK, CLS_CFG, ID_CFG_VALGET))
    /\ skipped' = IF c >= 2 /\ ack # "raise" /\ ~TimedOut(e) THEN FALSE
                  ELSE (skipped \/ OtherAck(r, CLS_CFG, ID_CFG_VALGET))
    /\ IF IsNone(msg)
       THEN /\ pc' = "aborted"
            /\ raised' = "AttributeError"
            /\ elapsed' = e
            /\ rxpending' = RxPendingAfter(r)
            /\ UNCHANGED <<written, count>>
       ELSE IF ack = "raise"
       THEN /\ pc' = "aborted"
            /\ raised' = "ACKError_NAK"
            /\ elapsed' = e
            /\ count' = count + (IF isval THEN 1 ELSE 0)
            /\ rxpending' = RxPendingAfter(r)
            /\ UNCHANGED written
       ELSE IF TimedOut(e)
       THEN /\ pc' = "aborted"
            /\ raised' = "ACKError_timeout"
            /\ elapsed' = e
            /\ count' = c
            /\ rxpending' = RxPendingAfter(r)
            /\ UNCHANGED written
       ELSE IF c < 2
       THEN /\ elapsed' = e
            /\ count' = c
            /\ rxpending' = RxPendingAfter(r)
            /\ UNCHANGED <<pc, written, raised>>
       ELSE /\ pc' = "set"
            /\ count' = c
            /\ written' = Append(written, config_set(cfg_data))
            /\ rxpending' = cfg_data
            /\ elapsed' = 0
            /\ UNCHANGED raised
    /\ NoDispatch
    /\ UNCHANGED <<rawpath, verbose, rxcfg0, set_acked, exc_type, report>>

\* faulty variant of the set wait: when it ends with an error the snapshot is
\* written back before the error leaves __enter__
SetRead_RestoresOnAbort(r, d) ==
    LET msg == readmsg(r)
        e == elapsed + d
        ack == IF IsNone(msg) THEN "False"
               ELSE ACK_helper(msg, CLS_CFG, ID_CFG_VALSET)
    IN
    /\ pc = "set"
    /\ late' = TimedOut(e)
    /\ raw' = r
    /\ rxcfg' = RxCfgAfter(r)
    /\ rxpending' = RxPendingAfter(r)
    /\ set_acked' = (set_acked \/ r = Ack(ID_ACK_ACK, CLS_CFG, ID_CFG_VALSET))
    /\ skipped' = (skipped \/ OtherAck(r, CLS_CFG, ID_CFG_VALSET))
    /\ IF IsNone(msg)
       THEN /\ pc' = "aborted" /\ raised' = "AttributeError" /\ elapsed' = e
            /\ UNCHANGED written
       ELSE IF ack = "True"
       THEN pc' = "monitor" /\ elapsed' = 0 /\ UNCHANGED <<raised, written>>
       ELSE IF ack = "raise" \/ TimedOut(e)
       THEN /\ pc' = "aborted" /\ elapsed' = e
            /\ raised' = IF ack = "raise" THEN "ACKError_NAK"
                          ELSE "ACKError_timeout"
            /\ written' = Append(written, config_set(cfg_data_save))
       ELSE elapsed' = e /\ UNCHANGED <<pc, raised, written>>
    /\ NoDispatch
    /\ UNCHANGED <<rawpath, verbose, count, cfg_data_save, rxcfg0,
                   poll_acked, exc_type, report>>

\* one turn of the loop of _cfg_receiver_RAM called from _receiver_setup;
\* on the ACK-ACK __enter__ returns and main calls monitor()
SetRead(r, d) ==
    LET msg == readmsg(r)
        e == elapsed + d
        ack == IF IsNone(msg) THEN "False"
               ELSE ACK_helper(msg, CLS_CFG, ID_CFG_VALSET)
    IN
    /\ pc = "set"
    /\ late' = TimedOut(e)
    /\ raw' = r
    /\ rxcfg' = RxCfgAfter(r)
    /\ rxpending' = RxPendingAfter(r)
    /\ set_acked' = (set_acked \/ r = Ack(ID_ACK_ACK, CLS_CFG, ID_CFG_VALSET))
    /\ skipped' = (skipped \/ OtherAck(r, CLS_CFG, ID_CFG_VALSET))
    /\ IF IsNone(msg)
       THEN pc' = "aborted" /\ raised' = "AttributeError" /\ elapsed' = e
       ELSE IF ack = "True"
       THEN pc' = "monitor" /\ elapsed' = 0 /\ UNCHANGED raised
       ELSE IF ack = "raise"
       THEN pc' = "aborted" /\ raised' = "ACKError_NAK" /\ elapsed' = e
       ELSE IF TimedOut(e)
       THEN pc' = "aborted" /\ raised' = "ACKError_timeout" /\ elapsed' = e
       ELSE elapsed' = e /\ UNCHANGED <<pc, raised>>
    /\ NoDispatch
    /\ UNCHANGED <<rawpath, verbose, count, cfg_data_save, written, rxcfg0,
                   poll_acked, exc_type, report>>

\* ----------------------------------------------------------- __exit__
\* __exit__(t, ...) up to the first read of _cfg_receiver_RAM(_cfg_data_save)
ExitStep(t) ==
    /\ exc_type' = t
    /\ skipped' = FALSE
    /\ IF issubclass_Exception(t) = "TypeError"
       THEN /\ pc' = "done"
            /\ raised' = "TypeError"
            /\ UNCHANGED <<written, rxpending, elapsed>>
       ELSE IF config_set_raises(cfg_data_save)
       THEN /\ pc' = "done"
            /\ raised' = "TypeError"
            /\ UNCHANGED <<written, rxpending, elapsed>>
       ELSE /\ pc' = "restore"
            /\ written' = Append(written, config_set(cfg_data_save))
            /\ rxpending' = cfg_data_save
            /\ elapsed' = 0
            /\ UNCHANGED raised

\* faulty variant of the restore wait: the deadline is tested before the
\* message is looked at
RestoreRead_DeadlineFirst(r, d) ==
    LET msg == readmsg(r)
        e == elapsed + d
        ack == IF IsNone(msg) THEN "False"
               ELSE ACK_helper(msg, CLS_CFG, ID_CFG_VALSET)
    IN
    /\ pc = "restore"
    /\ late' = TimedOut(e)
    /\ raw' = r
    /\ rxcfg' = RxCfgAfter(r)
    /\ rxpending' = RxPendingAfter(r)
    /\ elapsed' = e
    /\ skipped' = (skipped \/ OtherAck(r, CLS_CFG, ID_CFG_VALSET))
    /\ IF IsNone(msg)
       THEN pc' = "done" /\ raised' = "AttributeError" /\ UNCHANGED report
       ELSE IF TimedOut(e)
       THEN pc' = "done" /\ report' = "failed_timeout" /\ UNCHANGED raised
       ELSE IF ack = "True"
       THEN pc' = "done" /\ report' = "restored" /\ UNCHANGED raised
       ELSE IF ack = "raise"
       THEN pc' = "done" /\ report' = "failed_NAK" /\ UNCHANGED raised
       ELSE UNCHANGED <<pc, raised, report>>
    /\ NoDispatch
    /\ UNCHANGED <<rawpath, verbose, count, cfg_data_save, written, rxcfg0,
                   poll_acked, set_acked, exc_type>>

\* one turn of the loop of _cfg_receiver_RAM called from __exit__
RestoreRead(r, d) ==
    LET msg == readmsg(r)
        e == elapsed + d
        ack == IF IsNone(msg) THEN "False"
               ELSE ACK_helper(msg, CLS_CFG, ID_CFG_VALSET)
    IN
    /\ pc = "restore"
    /\ late' = TimedOut(e)
    /\ raw' = r
    /\ rxcfg' = RxCfgAfter(r)
    /\ rxpending' = RxPendingAfter(r)
    /\ elapsed' = e
    /\ skipped' = (skipped \/ OtherAck(r, CLS_CFG, ID_CFG_VALSET))
    /\ IF IsNone(msg)
       THEN pc' = "done" /\ raised' = "AttributeError" /\ UNCHANGED report
       ELSE IF ack = "True"
       THEN pc' = "done" /\ report' = "restored" /\ UNCHANGED raised
       ELSE IF ack = "raise"
       THEN pc' = "done" /\ report' = "failed_NAK" /\ UNCHANGED raised
       ELSE IF TimedOut(e)
       THEN pc' = "done" /\ report' = "failed_timeout" /\ UNCHANGED raised
       ELSE UNCHANGED <<pc, raised, report>>
    /\ NoDispatch
    /\ UNCHANGED <<rawpath, verbose, count, cfg_data_save, written, rxcfg0,
                   poll_acked, set_acked, exc_type>>

\* ----------------------------------------------------------- monitor
\* one turn of the loop of monitor(): read, pick the handler, call it; an
\* exception leaves the with block and __exit__ runs
MonitorRead(r) ==
    LET msg == readmsg(r)
        h == get_handler(msg)
    IN
    /\ pc = "monitor"
    /\ late' = FALSE
    /\ raw' = r
    /\ rxcfg' = RxCfgAfter(r)
    /\ IF IsNone(msg)
       THEN NoDispatch /\ ExitStep("AttributeError")
       ELSE \E res \in {call(h, msg)} :
               /\ last_UTC' = res.last_UTC
               /\ console' = res.console
               /\ appended' = res.appended
               /\ IF res.raises # "none"
                  THEN ExitStep(res.raises)
                  ELSE UNCHANGED <<pc, exc_type, raised, written, rxpending,
                                   elapsed, skipped>>
    /\ UNCHANGED <<rawpath, verbose, count, cfg_data_save, rxcfg0, poll_acked,
                   set_acked, report>>

\* SIGINT: KeyboardInterrupt is raised wherever the program is
Interrupt ==
    /\ pc \in {"version_check", "poll", "set", "monitor", "restore"}
    /\ late' = FALSE
    /\ raw' = Interrupted
    /\ IF pc = "monitor"
       THEN ExitStep("KeyboardInterrupt")
       ELSE /\ pc' = IF pc = "restore" THEN "done" ELSE "aborted"
            /\ raised' = "KeyboardInterrupt"
            /\ UNCHANGED <<exc_type, written, rxpending, elapsed, skipped>>
    /\ NoDispatch
    /\ UNCHANGED <<rawpath, verbose, count, cfg_data_save, rxcfg, rxcfg0,
                   poll_acked, set_acked, report>>

\* the body of a with block ends without an exception: __exit__(None, ...)
BodyReturns ==
    /\ pc = "monitor"
    /\ late' = FALSE
    /\ ExitStep("None")
    /\ NoDispatch
    /\ UNCHANGED <<rawpath, verbose, raw, count, cfg_data_save, rxcfg, rxcfg0,
                   poll_acked, set_acked, report>>

Next ==
    \/ Enter
    \/ \E r \in Incoming(rxcfg), d \in 0..StreamTimeout : VersionRead(r, d)
    \/ \E r \in Incoming(rxcfg), d \in 0..StreamTimeout : PollRead(r, d)
    \/ \E r \in Incoming(rxcfg), d \in 0..StreamTimeout : SetRead(r, d)
    \/ \E r \in Incoming(rxcfg) : MonitorRead(r)
    \/ \E r \in Incoming(rxcfg), d \in 0..StreamTimeout : RestoreRead(r, d)
    \/ Interrupt
    \/ BodyReturns

Spec == Init /\ [][Next]_vars

\* ------------------------------------------------------ the monitor loop
\* the session as __enter__ leaves it when startup went through: the
\* snapshot taken, the startup VALSET applied, no handler called yet
MonitorInit ==
    /\ pc = "monitor"
    /\ rawpath \in BOOLEAN
    /\ verbose \in BOOLEAN
    /\ raw = Ack(ID_ACK_ACK, CLS_CFG, ID_CFG_VALSET)
    /\ count = 2
    /\ elapsed = 0
    /\ rxcfg0 = [n \in ItemNames(rawpath) |-> 0]
    /\ cfg_data_save = SaveCfg(Valget(rxcfg0), cfg_data)
    /\ written = <<VersionPoll, config_poll(cfg_items_of(cfg_data)),
                   config_set(cfg_data)>>
    /\ rxcfg = RxApply(rxcfg0, cfg_data)
    /\ rxpending = None
    /\ poll_acked = TRUE
    /\ set_acked = TRUE
    /\ skipped = FALSE
    /\ exc_type = "unset"
    /\ raised = "none"
    /\ report = "none"
    /\ last_UTC = [date |-> NoneStr, date_valid |-> FALSE, tod |-> NoneStr,
                   nano |-> NoneStr, tod_valid |-> FALSE]
    /\ console = <<>>
    /\ appended = NoRows
    /\ late = FALSE

\* the loop of monitor() on the messages of the monitoring phase
MonitorNext == \E r \in Telemetry(rxcfg) : MonitorRead(r)

MonitorSpec == MonitorInit /\ [][MonitorNext]_vars


\* ================================================================ claims
IsMsg(r) == "msg_cls" \in DOMAIN r
PollNak == Ack(ID_ACK_NAK, CLS_CFG, ID_CFG_VALGET)
PollAck == Ack(ID_ACK_ACK, CLS_CFG, ID_CFG_VALGET)
SetNak == Ack(ID_ACK_NAK, CLS_CFG, ID_CFG_VALSET)
SetAck == Ack(ID_ACK_ACK, CLS_CFG, ID_CFG_VALSET)
ValsetWrites == {i \in 1..Len(written) : written[i].cmd = "CFG-VALSET"}
\* __exit__ was called and got as far as writing the restore VALSET
RestoreWaitEntered == exc_type \notin {"unset", "None"} /\ cfg_data_save # None
\* the snapshot that holds what the receiver held before the session
TrueSnapshot ==
    [i \in 1..Len(cfg_data) |-> <<cfg_data[i][1], rxcfg0[cfg_data[i][1]]>>]

\* C1: round trip of the configuration transaction. When startup (poll,
\* snapshot, set target) and teardown (set snapshot) both ran against a
\* receiver that answers the poll with its values and applies each VALSET it
\* acknowledges, and the restore was acknowledged, the snapshot holds the
\* values the receiver held before the session and the receiver holds, for
\* every target item, that value again.
C1_RoundTrip ==
    (pc = "done" /\ report = "restored") =>
        /\ cfg_data_save = TrueSnapshot
        /\ \A n \in ItemNames(rawpath) : rxcfg[n] = rxcfg0[n]

\* a restored session whose startup did change the receiver
C1_Witness ==
    /\ pc = "done"
    /\ report = "restored"
    /\ \E n \in ItemNames(rawpath) : rxcfg0[n] # RxApply(rxcfg0, cfg_data)[n]
    /\ \E n \in ItemNames(rawpath) : rxcfg0[n] = RxApply(rxcfg0, cfg_data)[n]

\* C2: the VALSET with the target values is written only after both a
\* configuration-values response was read and stored in the snapshot and a
\* matching ACK-ACK for the poll was read.
C2_SetOnlyAfterBoth ==
    ValsetWrites # {} => (cfg_data_save # None /\ poll_acked)

\* C3: the monitor loop is entered only after the poll phase completed and a
\* matching ACK-ACK for the startup VALSET was read; during _receiver_setup a
\* matching NAK, or a read that ends past the deadline without ending the
\* wait, aborts startup with an ACKError; an aborted startup never reaches
\* the loop.
C3_LoopOnlyAfterConfirmedSetup ==
    /\ [](pc \in {"monitor", "restore", "done"} => (count >= 2 /\ set_acked))
    /\ [](pc \in {"poll", "set"} => elapsed <= ReceiverTimeout)
    /\ [][(pc = "poll" /\ raw' = PollNak) \/ (pc = "set" /\ raw' = SetNak)
            => (pc' = "aborted" /\ raised' = "ACKError_NAK")]_vars
    /\ [][(pc \in {"poll", "set"} /\ IsMsg(raw') /\ elapsed' > ReceiverTimeout)
            => (pc' = "aborted"
                /\ raised' \in {"ACKError_NAK", "ACKError_timeout"})]_vars
    /\ [][pc = "aborted" => pc' = "aborted"]_vars

\* the loop runs after a startup that waited for its acknowledgments
C3_Witness ==
    pc = "monitor" /\ set_acked /\ poll_acked /\ cfg_data_save # None

\* C4: when the main loop of a started session exits via an error or an
\* interrupt, exactly one VALSET carrying the saved snapshot is written after
\* the loop stopped.
C4_RestoreWrittenOnce ==
    (pc \in {"restore", "done"}
     /\ exc_type \in {"AttributeError", "KeyError", "KeyboardInterrupt"}) =>
        /\ cfg_data_save # None
        /\ Cardinality(ValsetWrites) = 2
        /\ written[Len(written)] = config_set(cfg_data_save)

\* C5: on every exit path of a session whose snapshot was captured, a normal
\* end of the body included, __exit__ writes the VALSET with the snapshot.
C5_TeardownOnEveryExitPath ==
    (exc_type # "unset" /\ cfg_data_save # None) =>
        /\ Cardinality(ValsetWrites) = 2
        /\ written[Len(written)] = config_set(cfg_data_save)

\* C6: once __exit__ waits for the acknowledgment of the restore, a NAK, a
\* deadline expiry, a read that returns nothing or a decode error ends in a
\* report and __exit__ raises nothing.
C6_RestoreFailureNotEscalated ==
    (pc = "done" /\ RestoreWaitEntered /\ raw # Interrupted) =>
        /\ raised = "none"
        /\ report \in {"restored", "failed_NAK", "failed_timeout"}

\* C7: a read of the monitor loop that reports a decode error drops that
\* message and the loop goes on.
C7_DecodeErrorLoopContinues ==
    [][(pc = "monitor" /\ raw' = DecodeError) => pc' = "monitor"]_vars


\* the message id the wait at p expects its acknowledgment to name
ExpectedId(p) == IF p = "poll" THEN ID_CFG_VALGET ELSE ID_CFG_VALSET

\* C8: an ACK-ACK or ACK-NAK for another (class, id) than the expected one
\* never ends a wait and never raises: within the deadline the wait goes on;
\* in _cfg_receiver_RAM any other message is skipped the same way, and the
\* matching ACK-ACK then ends the wait with success.
C8_UnrelatedAcksSkipped ==
    /\ [][(pc \in {"poll", "set", "restore"}
           /\ OtherAck(raw', CLS_CFG, ExpectedId(pc)))
            => (raised' \in {raised, "ACKError_timeout"}
                /\ report' \in {report, "failed_timeout"}
                /\ pc' \in {pc, "aborted", "done"}
                /\ (elapsed' <= ReceiverTimeout
                    => (pc' = pc /\ raised' = raised /\ report' = report)))]_vars
    /\ [][(pc \in {"set", "restore"} /\ IsMsg(raw') /\ raw' \notin AckMsgs
           /\ elapsed' <= ReceiverTimeout) => pc' = pc]_vars
    /\ [][(pc = "set" /\ raw' = SetAck)
            => (pc' = "monitor" /\ raised' = "none")]_vars
    /\ [][(pc = "restore" /\ raw' = SetAck)
            => (pc' = "done" /\ report' = "restored" /\ raised' = "none")]_vars

\* a wait of _cfg_receiver_RAM that skipped an unrelated ACK-* and then
\* ended with success
C8_Witness ==
    /\ skipped
    /\ raw = SetAck
    /\ pc = "monitor" \/ (pc = "done" /\ report = "restored")

\* C9: the first matching ACK-NAK ends the wait with the NAK error: startup
\* aborts, teardown reports the failure; nothing is written or read after
\* it, so no later ACK-ACK changes the outcome.
C9_MatchingNakTerminal ==
    /\ [][((pc = "poll" /\ raw' = PollNak) \/ (pc = "set" /\ raw' = SetNak))
            => (pc' = "aborted" /\ raised' = "ACKError_NAK"
                /\ written' = written)]_vars
    /\ [][(pc = "restore" /\ raw' = SetNak)
            => (pc' = "done" /\ report' = "failed_NAK" /\ raised' = "none"
                /\ written' = written)]_vars
    /\ [][(pc \in {"aborted", "done"}) => (UNCHANGED vars)]_vars

\* startup ended by the NAK for its VALSET
C9_Witness ==
    pc = "aborted" /\ raised = "ACKError_NAK" /\ raw = SetNak /\ ~set_acked

\* C10: a wait that ends without a matching ACK-ACK or ACK-NAK having been
\* read (other messages, nothing, or decode errors only) fails with the
\* timeout ACKError, after the deadline and at most one read cycle after it.
C10_TimeoutOutcome ==
    /\ (pc = "aborted" /\ Len(written) >= 2
        /\ raised \notin {"ACKError_NAK", "KeyboardInterrupt"}) =>
            /\ raised = "ACKError_timeout"
            /\ elapsed > ReceiverTimeout
            /\ elapsed <= ReceiverTimeout + StreamTimeout
    /\ (pc = "done" /\ RestoreWaitEntered /\ raw # Interrupted
        /\ report \notin {"restored", "failed_NAK"}) =>
            /\ report = "failed_timeout"
            /\ raised = "none"
            /\ elapsed > ReceiverTimeout
            /\ elapsed <= ReceiverTimeout + StreamTimeout


\* ======================================================= monitor-loop claims
IsPvt(r) == IsMsg(r) /\ r.msg_cls = CLS_NAV /\ r.msg_id = ID_NAV_PVT
IsStatus(r) == IsMsg(r) /\ r.msg_cls = CLS_NAV /\ r.msg_id = ID_NAV_STATUS
IsRf(r) == IsMsg(r) /\ r.msg_cls = CLS_MON /\ r.msg_id = ID_MON_RF
\* the texts a confirmed date and a confirmed time of NavPvtMsgs are shown as
DateText(d) == IF d = 4 THEN "2026-11-04" ELSE "2026-11-15"
TimeText == "09:05:07 n=-5"
\* the timestamp that the flags, date and time of NAV-PVT m alone call for
StampOf(m) ==
    (IF m.confirmedDate = 1 THEN DateText(m.day) ELSE "no_valid_date")
    \o " "
    \o (IF m.confirmedTime = 1 THEN TimeText ELSE "no_valid_time")

\* C11: while the loop runs, after a NAV-PVT the validity flags are the
\* confirmation flags of that message, and the rendered timestamp shows the
\* message's date iff confirmedDate = 1 (else the date placeholder) and its
\* time with the nanoseconds iff confirmedTime = 1 (else the time
\* placeholder); a date stored by an earlier message is not shown
C11_TrackerReflectsLatestFlags ==
    IsPvt(raw) =>
        /\ last_UTC.date_valid = (raw.confirmedDate = 1)
        /\ last_UTC.tod_valid = (raw.confirmedTime = 1)
        /\ get_last_UTC(last_UTC) = StampOf(raw)

\* a NAV-PVT without confirmed date arrived after one that stored a date
C11_Witness ==
    /\ IsPvt(raw)
    /\ raw.confirmedDate = 0
    /\ last_UTC.date = DateText(4)
    /\ raw.confirmedTime = 1
    /\ get_last_UTC(last_UTC) = "no_valid_date 09:05:07 n=-5"

\* the blocks of MON-RF message m all name a band of the bands table
KnownBands(m) ==
    \A i \in 1..m.nBlocks : getattr_helper(m, "blockId_", i) \in {0, 1}
\* the lines a code calls for: one unless it is the nominal code 1 and
\* --verbose is off
LinesFor(code) == IF code # 1 \/ verbose THEN 1 ELSE 0

\* C12: the handler of a NAV-PVT, of a NAV-STATUS and of a one-block MON-RF
\* on a known band prints one line when the code (gnssFixOk, spoofDetState,
\* jammingState) is not 1, or is 1 with --verbose, and no line otherwise
C12_VerbosityGating ==
    /\ IsPvt(raw) => Len(console) = LinesFor(raw.gnssFixOk)
    /\ IsStatus(raw) => Len(console) = LinesFor(raw.spoofDetState)
    /\ (IsRf(raw) /\ raw.nBlocks = 1 /\ KnownBands(raw))
          => Len(console) = LinesFor(raw.attrs["jammingState_01"])

\* the nominal jamming state was printed because --verbose is on
C12_Witness ==
    /\ IsRf(raw) /\ raw.nBlocks = 1 /\ KnownBands(raw)
    /\ raw.attrs["jammingState_01"] = 1
    /\ verbose
    /\ Len(console) = 1

\* C13: a MON-RF with a block whose blockId is not 0 or 1 ends its handler
\* with an error, whatever the block's jamming state and with --verbose on
\* or off
C13_UnknownBandFatal ==
    (IsRf(raw) /\ ~KnownBands(raw)) => exc_type = "KeyError"

\* the blocks of MON-RF message m whose jamming state is one of codes
BlocksWith(m, codes) ==
    {i \in 1..m.nBlocks : getattr_helper(m, "jammingState_", i) \in codes}
TwoBandExample ==
    MonRf(<<[blockId |-> 0, jammingState |-> 3],
            [blockId |-> 1, jammingState |-> 1]>>)

\* C14: the handler of a MON-RF whose nBlocks blocks are all on known bands
\* prints as many lines as it has blocks with jamming state 0, 2 or 3, plus,
\* with --verbose, as many as it has blocks with jamming state 1; for band 0
\* in state 3 and band 1 in state 1 without --verbose that is the one line
\* of band 0
C14_OneEvaluationPerBand ==
    /\ (IsRf(raw) /\ KnownBands(raw)) =>
          Len(console) = Cardinality(BlocksWith(raw, {0, 2, 3}))
                         + (IF verbose THEN Cardinality(BlocksWith(raw, {1}))
                            ELSE 0)
    /\ (raw = TwoBandExample /\ ~verbose) =>
          console = <<get_last_UTC(last_UTC)
                      \o ": critical - interference visible on L1 band and no fix">>

\* the two-band message was handled without --verbose
C14_Witness ==
    /\ raw = TwoBandExample
    /\ ~verbose
    /\ Len(console) = 1

\* C15: the handler of a NAV-PVT with gnssFixOk = 0 prints the one line
\* "No valid fix" behind the timestamp of that message's own flags, date and
\* time; with --rawpath the handler of every NAV-PVT, fix or none, appends
\* one row to the NAV-PVT dump and to no other
C15_NoFixLineAndOneRow ==
    /\ (IsPvt(raw) /\ raw.gnssFixOk = 0) =>
          console = <<StampOf(raw) \o ": No valid fix">>
    /\ (IsPvt(raw) /\ rawpath) =>
          /\ Len(appended["NAV_PVT"]) = 1
          /\ \A k \in Sinks \ {"NAV_PVT"} : appended[k] = <<>>

\* a NAV-PVT with both confirmations and no fix was handled with --rawpath
C15_Witness ==
    /\ IsPvt(raw) /\ raw.gnssFixOk = 0
    /\ raw.confirmedDate = 1 /\ raw.confirmedTime = 1 /\ raw.day = 15
    /\ rawpath
    /\ console = <<"2026-11-15 09:05:07 n=-5: No valid fix">>
    /\ Len(appended["NAV_PVT"]) = 1

\* the number of repeated blocks of message m and the fields of a block
BlockCount(m) ==
    IF IsRf(m) THEN m.nBlocks
    ELSE IF "numMeas" \in DOMAIN m THEN m.numMeas
    ELSE IF "numWords" \in DOMAIN m THEN m.numWords
    ELSE 0
BlockFields(m) ==
    IF IsRf(m) THEN {"blockId", "jammingState"}
    ELSE IF "numMeas" \in DOMAIN m THEN {"prMes"}
    ELSE IF "numWords" \in DOMAIN m THEN {"dwrd"}
    ELSE {"blockId"}
\* indexes past the last block: the next ones and some far ones
PastIndexes(m) ==
    ((BlockCount(m) + 1)..(BlockCount(m) + 3)) \cup {12, 99, 100, 101}

\* C16: for a message the loop has read, _getattr_helper gives, for every
\* field of its repeated blocks, the value the message holds for block i when
\* i is in 1..blockCount, and None when i is blockCount + 1 or larger
C16_ExtractorDefinedThenAbsent ==
    IsMsg(raw) =>
        \A f \in BlockFields(raw) :
            /\ \A i \in 1..BlockCount(raw) :
                  /\ getattr_helper(raw, f \o "_", i) = raw.attrs[Indexed(f, i)]
                  /\ getattr_helper(raw, f \o "_", i) # NoneAttr
            /\ \A i \in PastIndexes(raw) :
                  getattr_helper(raw, f \o "_", i) = NoneAttr

\* a two-block MON-RF was handled: block 2 is there, block 3 is not
C16_Witness ==
    /\ IsRf(raw) /\ raw.nBlocks = 2
    /\ Len(appended["MON_RF"]) = 2
    /\ appended["MON_RF"][2] = <<get_last_UTC(last_UTC), raw.attrs["blockId_02"],
                                 raw.attrs["jammingState_02"]>>
    /\ getattr_helper(raw, "jammingState_", 2) = raw.attrs["jammingState_02"]
    /\ getattr_helper(raw, "jammingState_", 3) = NoneAttr

\* the keys _ubxmsg_to_handler holds, each with its handler
Registered ==
    {<<CLS_NAV, ID_NAV_PVT, "_NAV_PVT_handler">>,
     <<CLS_NAV, ID_NAV_STATUS, "_NAV_STATUS_handler">>,
     <<CLS_MON, ID_MON_RF, "_MON_RF_handler">>}
    \cup (IF rawpath
          THEN {<<CLS_RXM, ID_RXM_RAWX, "_RXM_RAWX_handler">>,
                <<CLS_RXM, ID_RXM_SFRBX, "_RXM_SFRBX_handler">>}
          ELSE {})
IsRegistered(m) == \E e \in Registered : e[1] = m.msg_cls /\ e[2] = m.msg_id
Decoded(cfg) == {m \in Telemetry(cfg) : IsMsg(m)}

\* C17: every message with a registered key gets the handler of that key,
\* and a loop turn that reads a message whose key is not registered gets
\* _other_handler, prints no line, appends no row, raises nothing and leaves
\* the UTC attributes, the snapshot and the handler of every message as they
\* were
C17_UnregisteredKeyIsNoOp ==
    /\ [](\A m \in Decoded(rxcfg) :
            /\ \A e \in Registered :
                  (e[1] = m.msg_cls /\ e[2] = m.msg_id) => get_handler(m) = e[3]
            /\ ~IsRegistered(m) => get_handler(m) = "_other_handler")
    /\ [][(pc = "monitor" /\ IsMsg(raw') /\ ~IsRegistered(raw')) =>
            (/\ console' = <<>>
             /\ appended' = NoRows
             /\ pc' = "monitor" /\ exc_type' = exc_type /\ raised' = raised
             /\ last_UTC' = last_UTC
             /\ cfg_data_save' = cfg_data_save
             /\ \A m \in Decoded(rxcfg) : get_handler(m)' = get_handler(m))]_vars

\* without --rawpath an RXM-RAWX of two measurements went to _other_handler
\* after a NAV-PVT had set the date
C17_Witness ==
    /\ ~rawpath
    /\ IsMsg(raw) /\ raw.msg_cls = CLS_RXM /\ raw.msg_id = ID_RXM_RAWX
    /\ raw.numMeas = 2
    /\ get_handler(raw) = "_other_handler"
    /\ last_UTC.date_valid
    /\ pc = "monitor"

\* without --rawpath no handler appends a row, RXM-RAWX and RXM-SFRBX going
\* to _other_handler
NoRowsWithoutRawDump ==
    ~rawpath =>
        /\ appended = NoRows
        /\ \A m \in RawxMsgs \cup {RxmSfrbx} : get_handler(m) = "_other_handler"

\* C18: without --rawpath no handler appends a row to any dump, whatever
\* messages came (RXM-RAWX and RXM-SFRBX go to _other_handler, the NAV-PVT
\* and MON-RF handlers skip their rows); with --rawpath a MON-RF appends
\* nBlocks rows to the MON-RF dump
C18_RowsGatedOnRawDump ==
    /\ NoRowsWithoutRawDump
    /\ (rawpath /\ IsRf(raw)) => Len(appended["MON_RF"]) = raw.nBlocks

\* C18 as the program has it: without --rawpath no handler appends a row;
\* with --rawpath a MON-RF whose handler returns appends nBlocks rows to the
\* MON-RF dump, and one whose handler ends with KeyError appends none, the
\* rows of the blocks before the unknown band included
C18_RowsGatedOnRawDump_Amended ==
    /\ NoRowsWithoutRawDump
    /\ (rawpath /\ IsRf(raw)) =>
          Len(appended["MON_RF"]) = (IF exc_type = "KeyError" THEN 0
                                    ELSE raw.nBlocks)

\* with --rawpath the handler of a two-block MON-RF ended with KeyError on
\* its second block and nothing was appended
C18_Witness ==
    /\ rawpath
    /\ IsRf(raw) /\ raw.nBlocks = 2
    /\ raw.attrs["blockId_01"] = 0 /\ raw.attrs["blockId_02"] = 2
    /\ exc_type = "KeyError"
    /\ appended = NoRows


\* line s begins with the text t
StartsWith(s, t) == Len(s) >= Len(t) /\ SubSeq(s, 1, Len(t)) = t

\* C20: a loop turn that reads a message other than NAV-PVT (NAV-STATUS,
\* MON-RF, RXM-RAWX, RXM-SFRBX or one without handler) leaves the five UTC
\* attributes as they were, and every line it prints and every row it appends
\* starts with the timestamp of the attributes as the last NAV-PVT left them
C20_OnlyNavPvtMutatesUTC ==
    [][(pc = "monitor" /\ IsMsg(raw') /\ ~IsPvt(raw')) =>
         (/\ last_UTC'.date = last_UTC.date
          /\ last_UTC'.date_valid = last_UTC.date_valid
          /\ last_UTC'.tod = last_UTC.tod
          /\ last_UTC'.tod_valid = last_UTC.tod_valid
          /\ last_UTC'.nano = last_UTC.nano
          /\ \A i \in 1..Len(console') :
                StartsWith(console'[i], get_last_UTC(last_UTC) \o ": ")
          /\ \A k \in Sinks : \A i \in 1..Len(appended'[k]) :
                appended'[k][i][1] = get_last_UTC(last_UTC))]_vars

\* a NAV-STATUS was handled after a NAV-PVT with confirmed date and time
C20_Witness ==
    /\ IsStatus(raw) /\ raw.spoofDetState = 2
    /\ last_UTC.date_valid /\ last_UTC.tod_valid
    /\ console = <<"2026-11-04 09:05:07 n=-5: Spoofing indicated">>


\* ========================================================== poll order
\* the read of this step is neither the values response nor an ACK-ACK or
\* ACK-NAK for the poll
UnrelatedToPoll(r) == IsMsg(r) /\ ~IsValget(r) /\ r \notin {PollAck, PollNak}
\* the deadline test of the poll wait fired in this step
PollDeadlineFired == raised' = "ACKError_timeout"
\* the poll phase ends with the true snapshot and the startup VALSET written
SetSent ==
    /\ pc' = "set"
    /\ cfg_data_save' = TrueSnapshot
    /\ written' = Append(written, config_set(cfg_data))

\* C19: in the poll wait, while its deadline test does not fire, a message
\* unrelated to the poll changes nothing of the wait; the first of values
\* response and matching ACK-ACK is taken; and the second one, the response
\* after the ACK-ACK just as the ACK-ACK after the response, ends the wait
\* with the same snapshot (the values polled) and the startup VALSET written
C19_PollAcceptsEitherOrder ==
    [][(pc = "poll" /\ ~PollDeadlineFired) =>
         /\ UnrelatedToPoll(raw') =>
               /\ pc' = "poll"
               /\ UNCHANGED <<count, cfg_data_save, poll_acked, written>>
         /\ (count = 0 /\ raw' \in {PollAck, Valget(rxcfg)}) =>
               /\ pc' = "poll" /\ count' = 1
               /\ raw' = PollAck => (poll_acked' /\ cfg_data_save' = None)
               /\ raw' = Valget(rxcfg) =>
                     (~poll_acked' /\ cfg_data_save' = TrueSnapshot)
         /\ (count = 1 /\ cfg_data_save # None /\ ~poll_acked /\ raw' = PollAck)
               => SetSent
         /\ (count = 1 /\ cfg_data_save = None /\ poll_acked
               /\ raw' = Valget(rxcfg))
               => SetSent]_vars

\* the ACK-ACK came first and the values response ended the poll phase
C19_Witness ==
    /\ pc = "set"
    /\ raw = Valget(rxcfg0)
    /\ poll_acked
    /\ count = 2
    /\ cfg_data_save = TrueSnapshot
    /\ written[Len(written)] = config_set(cfg_data)


\* ===================================================== UTC attributes defined
\* C21: whenever the date flag is set the date string is not None, and
\* whenever the time flag is set neither the time of day nor the nanosecond
\* string is None, so _get_last_UTC concatenates strings only; before the
\* first NAV-PVT both flags are off and both placeholders are rendered
C21_ValidImpliesDefined ==
    /\ last_UTC.date_valid => last_UTC.date # NoneStr
    /\ last_UTC.tod_valid => (last_UTC.tod # NoneStr /\ last_UTC.nano # NoneStr)
    /\ (last_UTC.date = NoneStr /\ last_UTC.tod = NoneStr) =>
          get_last_UTC(last_UTC) = "no_valid_date no_valid_time"

\* a NAV-PVT confirmed the time and no NAV-PVT has confirmed a date yet
C21_Witness ==
    /\ IsPvt(raw)
    /\ last_UTC.tod_valid /\ last_UTC.tod # NoneStr /\ last_UTC.nano # NoneStr
    /\ ~last_UTC.date_valid /\ last_UTC.date = NoneStr
    /\ get_last_UTC(last_UTC) = "no_valid_date 09:05:07 n=-5"


\* ================================================ no restore after an abort
\* C22: once startup has ended with an error (NAK or deadline in the poll or
\* in the set wait, or any other exception out of __enter__), __exit__ is
\* not called and nothing more is written: the commands written hold at most
\* the one startup VALSET, also when the snapshot had been taken and the
\* startup VALSET sent
C22_NoRestoreAfterAbortedStartup ==
    /\ [](pc = "aborted" =>
            /\ exc_type = "unset"
            /\ report = "none"
            /\ Cardinality(ValsetWrites) <= 1
            /\ \A i \in ValsetWrites : written[i] = config_set(cfg_data))
    /\ [][pc = "aborted" => written' = written]_vars

\* the set wait ran into its deadline: the snapshot is taken, the startup
\* VALSET is with the receiver, and the session is over
C22_Witness ==
    /\ pc = "aborted"
    /\ raised = "ACKError_timeout"
    /\ cfg_data_save = TrueSnapshot
    /\ written[Len(written)] = config_set(cfg_data)
    /\ rxpending = cfg_data
    /\ ~set_acked


\* ============================================== ACK-ACK against the deadline
\* C23: in both waits of _cfg_receiver_RAM (startup set and restore) a read
\* that delivers the matching ACK-ACK ends the wait with success whatever
\* time has passed, and the deadline counts only on a read of a message that
\* is neither the matching ACK-ACK nor the matching ACK-NAK
C23_AckBeatsDeadline ==
    [][/\ (pc = "set" /\ raw' = SetAck) =>
             (pc' = "monitor" /\ raised' = raised /\ set_acked')
       /\ (pc = "restore" /\ raw' = SetAck) =>
             (pc' = "done" /\ report' = "restored" /\ raised' = raised)
       /\ (pc = "set" /\ IsMsg(raw') /\ raw' \notin {SetAck, SetNak}
             /\ elapsed' > ReceiverTimeout) =>
             (pc' = "aborted" /\ raised' = "ACKError_timeout")
       /\ (pc = "restore" /\ IsMsg(raw') /\ raw' \notin {SetAck, SetNak}
             /\ elapsed' > ReceiverTimeout) =>
             (pc' = "done" /\ report' = "failed_timeout")]_vars

\* the ACK-ACK for the restore was read after the deadline had passed and the
\* restore is reported as done
C23_Witness ==
    /\ pc = "done"
    /\ raw = SetAck
    /\ elapsed > ReceiverTimeout
    /\ report = "restored"
    /\ raised = "none"


\* ================================================ poll deadline on every read
\* C24: in the poll wait every read that comes back after the deadline, and
\* is not the NAK for the poll, ends startup with the timeout error and the
\* startup VALSET is not written, the read that delivers the second of
\* values response and matching ACK-ACK included
C24_PollDeadlineAfterEveryRead ==
    [][(pc = "poll" /\ late' /\ IsMsg(raw') /\ raw' # PollNak) =>
         (/\ pc' = "aborted"
          /\ raised' = "ACKError_timeout"
          /\ written' = written)]_vars

\* the values response and then the ACK-ACK were read, the ACK-ACK after the
\* deadline: startup failed with the timeout and no VALSET was written
C24_Witness ==
    /\ pc = "aborted"
    /\ raised = "ACKError_timeout"
    /\ late
    /\ raw = PollAck
    /\ count = 2
    /\ poll_acked
    /\ cfg_data_save = TrueSnapshot
    /\ ValsetWrites = {}


\* ================================================= reads of the waits
InWait == pc \in {"version_check", "poll", "set", "restore"}
NoUTCYet == [date |-> NoneStr, date_valid |-> FALSE, tod |-> NoneStr,
             nano |-> NoneStr, tod_valid |-> FALSE]

\* C25: a message read by a wait (version check, poll, startup set, restore)
\* goes to no handler: the step prints no line, appends no row and leaves
\* the UTC attributes alone, so that startup ends with the attributes still
\* unset; and a turn of the monitor loop handles the message it has read
\* itself and no earlier one: when that message has no handler the turn
\* prints nothing, appends nothing and leaves the UTC attributes alone
C25_WaitReadsAreDiscarded ==
    /\ [](pc \in {"init", "version_check", "poll", "set", "aborted"} =>
            (last_UTC = NoUTCYet /\ console = <<>> /\ appended = NoRows))
    /\ [][(InWait /\ IsMsg(raw')) =>
            (console' = <<>> /\ appended' = NoRows /\ last_UTC' = last_UTC)]_vars
    /\ [][(pc = "set" /\ pc' = "monitor") =>
            (last_UTC' = NoUTCYet /\ console' = <<>> /\ appended' = NoRows)]_vars
    /\ [][(pc = "monitor" /\ IsMsg(raw') /\ ~IsRegistered(raw')) =>
            (console' = <<>> /\ appended' = NoRows /\ last_UTC' = last_UTC)]_vars

\* the set wait has read a NAV-PVT with confirmed date and no fix: nothing
\* was printed and no date is stored
C25_Witness ==
    /\ pc = "set"
    /\ raw = NavPvt
    /\ raw.confirmedDate = 1 /\ raw.gnssFixOk = 0
    /\ last_UTC = NoUTCYet
    /\ console = <<>>
    /\ appended = NoRows

====
